---- MODULE Spec2Model ----
(***************************************************************************)
(* A model of the ledger core of the `illusion` block chain: proof of      *)
(* work (pow.rs), blocks (block.rs), transactions (transaction.rs), the    *)
(* wallet boundary (wallet.rs) and the chain with its UTXO engine          *)
(* (block_chain.rs), driven as cli.rs drives it.                           *)
(*                                                                         *)
(* Conventions.  Option<T> is a sequence: None is << >> and Some(x) is     *)
(* <<x>>.  A usize index is kept 0-based as in the source; TLA+ sequences  *)
(* are 1-based, so output idx of a transaction is v_out[idx + 1].          *)
(* A SHA-256 digest is a record [bytes, pre]: `bytes` are its leading      *)
(* HashLen bytes, computed from the bytes fed to the hasher, and `pre` is  *)
(* what was hashed, so that two digests are equal exactly when their       *)
(* inputs are (no collisions).                                             *)
(***************************************************************************)
EXTENDS Integers, Sequences, FiniteSets, TLC

\* ---------------------------------------------------------------- bounds
\* The largest number of blocks the store may hold.
MaxBlocks == 3
\* How many leading bytes of a digest are kept.
HashLen == 2
\* The clock stops at this reading.
MaxTime == 2
\* The width in bits of the nonce in the builds with a narrow nonce
NonceBits == 4
\* The most inputs of a transaction is_coinbase_tx is applied to
MaxInputs == 2
\* Most transfers appended after the genesis block where ledgers are followed
\* one block further than MaxBlocks.
MaxSends == 3

\* ------------------------------------------------------ program constants
SUBSIDY == 50
TARGET_BITS == 1
ADDR_VERSION == 0
ADDR_CHECKSUM_LEN == 4

\* ---------------------------------------------------------------- Option
None == << >>
Some(x) == <<x>>

\* --------------------------------------------------------------- hashing
\* The state h of the hasher is one byte; comparing it at every step has it
\* evaluated step by step and not as one nested expression at the end.
RECURSIVE MixFrom(_, _, _)
MixFrom(flat, i, h) ==
    IF i > Len(flat) \/ h >= 256 THEN h
    ELSE MixFrom(flat, i + 1, (h * 31 + flat[i] + 7) % 256)

\* Byte number `salt` of the digest of the byte string `flat`.
Mix(flat, salt) == MixFrom(flat, 1, (salt * 89 + 11) % 256)

\* Sha256::new() ... finalize(): `flat` are the bytes fed to the hasher.
Sha256(pre, flat) == [bytes |-> [i \in 1..HashLen |-> Mix(flat, i)], pre |-> pre]

RECURSIVE Concat(_)
Concat(ss) == IF ss = << >> THEN << >> ELSE Head(ss) \o Concat(Tail(ss))

RECURSIVE SumSeq(_)
SumSeq(s) == IF s = << >> THEN 0 ELSE Head(s) + SumSeq(Tail(s))

\* u128::to_string(): the decimal digits, as ASCII bytes.
RECURSIVE to_string(_)
to_string(n) == IF n < 10 THEN <<48 + n>> ELSE to_string(n \div 10) \o <<48 + (n % 10)>>

\* The k low bytes of n, least significant first.
RECURSIVE le_bytes(_, _)
le_bytes(n, k) == IF k = 0 THEN << >> ELSE <<n % 256>> \o le_bytes(n \div 256, k - 1)

\* u64::to_le_bytes()
to_le_bytes(n) == le_bytes(n, 8)

\* ---------------------------------------------------------------- wallet
\* A key pair is a small number k; Wallet::public_key is then the bytes <<k>>.
Keys == {1, 2}
public_key(k) == <<k>>

\* RIPEMD160(SHA256(pub_key)), one byte kept.
hash_pub_key(pub_key) == <<Mix(pub_key, 1)>>

\* Wallet::get_address.  The base58 text and the bytes it encodes determine
\* each other, so an address is kept as the bytes: version, key hash, checksum.
get_address(k) ==
    LET version == <<ADDR_VERSION>>
        pub_key_hash == hash_pub_key(public_key(k))
        checksum == [i \in 1..ADDR_CHECKSUM_LEN |-> Mix(version \o pub_key_hash, 10 + i)]
    IN  version \o pub_key_hash \o checksum

\* What a call that panicked comes to.
Panic == [panic |-> TRUE]

\* bs58::decode(address) is an Err: the text has a character outside the
\* base58 alphabet.  Such a text is kept as a sequence that holds a value no
\* byte has.
decode_fails(address) == \E i \in DOMAIN address : address[i] \notin 0..255

\* extract_pub_key_hash panics (wallet.rs 186-189): the text does not decode,
\* a.len() - ADDR_CHECKSUM_LEN underflows (fewer than 4 bytes), or the slice
\* 1..end ends before it starts (4 bytes).
extract_panics(address) ==
    decode_fails(address) \/ Len(address) < 1 + ADDR_CHECKSUM_LEN

\* extract_pub_key_hash: drops the version byte and the checksum; of an
\* address that decodes to 5 bytes or more nothing is verified.
extract_pub_key_hash(address) ==
    IF extract_panics(address) THEN Panic
    ELSE SubSeq(address, 2, Len(address) - ADDR_CHECKSUM_LEN)

\* An address string that decodes to the key hash of `address` but carries
\* another checksum (for instance a mistyped last character).
Mistyped(address) ==
    [address EXCEPT ![Len(address)] = (@ + 1) % 256]

A1 == get_address(1)
A2 == get_address(2)
A1x == Mistyped(A1)
\* The address of a key pair for which no wallet is ever created.
A0 == get_address(3)

\* Every address the model queries.
Addresses == {A0, A1, A2, A1x}

\* The text "1111", which decodes to four zero bytes, and a text that is not
\* base58 ("0OIl").
ShortAddress == <<0, 0, 0, 0>>
NotBase58 == <<256>>
BadAddresses == {ShortAddress, NotBase58}

\* ----------------------------------------------------------- transactions
NotImplementedYet == "not implemented yet"

TXOutput_new(value, address) ==
    IF extract_panics(address) THEN Panic
    ELSE [value |-> value, pub_key_hash |-> extract_pub_key_hash(address)]

is_locking_with_key(txo, pub_key_hash) == txo.pub_key_hash = pub_key_hash

use_key(txi, pub_key_hash) == pub_key_hash = hash_pub_key(txi.pub_key)

\* bincode's bytes of the inputs and outputs, as fed to the hasher.
SerOpt(o, body) == IF o = None THEN <<0>> ELSE <<1>> \o body

SerInput(txi) ==
    SerOpt(txi.tx_id, IF txi.tx_id = None THEN << >> ELSE txi.tx_id[1].bytes)
    \o SerOpt(txi.v_out_idx, txi.v_out_idx)
    \o SerOpt(txi.signature, <<19>>)
    \o <<Len(txi.pub_key)>> \o txi.pub_key

SerOutput(txo) == <<txo.value, Len(txo.pub_key_hash)>> \o txo.pub_key_hash

SerInputs(v_in) == <<Len(v_in)>> \o Concat([i \in 1..Len(v_in) |-> SerInput(v_in[i])])

SerOutputs(v_out) == <<Len(v_out)>> \o Concat([i \in 1..Len(v_out) |-> SerOutput(v_out[i])])

hash_transaction(v_in, v_out) ==
    Sha256(<<v_in, v_out>>, SerInputs(v_in) \o SerOutputs(v_out))

\* The bytes of format!("Reword to {}", to); the address stands for its text.
RewordTo(to) == <<82, 101, 119, 111, 114, 100, 32, 116, 111, 32>> \o to

\* A coinbase that pays the subsidy twice.
new_coinbase_tx_twice(to, data) ==
    LET memo == IF data = None THEN RewordTo(to) ELSE data[1]
        tx_in == <<[tx_id |-> None, v_out_idx |-> None, signature |-> None, pub_key |-> memo]>>
        tx_out == <<TXOutput_new(SUBSIDY, to), TXOutput_new(SUBSIDY, to)>>
    IN  IF extract_panics(to) THEN Panic
        ELSE [id |-> hash_transaction(tx_in, tx_out), v_in |-> tx_in, v_out |-> tx_out]

\* `data` is an Option<String>, a string being its bytes.  TXOutput::new
\* (line 31) panics on an address extract_pub_key_hash panics on.
new_coinbase_tx(to, data) ==
    LET memo == IF data = None THEN RewordTo(to) ELSE data[1]
        tx_in == <<[tx_id |-> None, v_out_idx |-> None, signature |-> None, pub_key |-> memo]>>
        tx_out == <<TXOutput_new(SUBSIDY, to)>>
    IN  IF extract_panics(to) THEN Panic
        ELSE [id |-> hash_transaction(tx_in, tx_out), v_in |-> tx_in, v_out |-> tx_out]

\* An is_coinbase_tx that looks at the first input only.
is_coinbase_tx_first_input(tx) == Len(tx.v_in) >= 1 /\ tx.v_in[1].tx_id = None

is_coinbase_tx(tx) == Len(tx.v_in) = 1 /\ tx.v_in[1].tx_id = None

\* ------------------------------------------------------------ proof of work
Shr(byte, n) == byte \div (2 ^ n)

\* a | b on u8
RECURSIVE BitOr(_, _)
BitOr(a, b) ==
    IF a = 0 THEN b
    ELSE IF b = 0 THEN a
    ELSE 2 * BitOr(a \div 2, b \div 2) + (IF (a % 2) + (b % 2) > 0 THEN 1 ELSE 0)

RECURSIVE validate_loop(_, _, _, _)
validate_loop(hash_bytes, i, count, checksum) ==
    IF i > Len(hash_bytes) THEN checksum = 0
    ELSE IF count >= 8
         THEN LET c == BitOr(checksum, hash_bytes[i])
              IN  IF c # 0 THEN FALSE ELSE validate_loop(hash_bytes, i + 1, count - 8, c)
         ELSE (IF count > 0 THEN BitOr(checksum, Shr(hash_bytes[i], 8 - count)) ELSE checksum) = 0

\* validate_hash stopping at whole bytes: the bits of a partly covered byte
\* are not looked at.
validate_hash_whole_bytes(hash, target_bits) ==
    \A i \in 1..Len(hash.bytes) : i <= target_bits \div 8 => hash.bytes[i] = 0

\* validate_hash as it is when the constant TARGET_BITS is target_bits.
validate_hash_with(hash, target_bits) == validate_loop(hash.bytes, 1, target_bits, 0)

validate_hash(hash) == validate_loop(hash.bytes, 1, TARGET_BITS, 0)

hash_transactions(transactions) ==
    LET ids == [i \in 1..Len(transactions) |-> transactions[i].id]
    IN  Sha256(ids, Concat([i \in 1..Len(ids) |-> ids[i].bytes]))

\* The digest of one attempt of pow's loop.
block_hash(timestamp, tx_digest, prev_block_hash, nonce) ==
    Sha256(<<timestamp, tx_digest.pre, prev_block_hash, nonce>>,
           to_string(timestamp) \o tx_digest.bytes
           \o (IF prev_block_hash = None THEN << >> ELSE prev_block_hash[1].bytes)
           \o to_le_bytes(nonce))

\* u64::MAX is beyond the checker's integers; the largest one it has stands in.
NONCE_MAX == 2147483647

RECURSIVE pow_loop(_, _, _, _)
pow_loop(timestamp, transactions, prev_block_hash, nonce) ==
    LET hash == block_hash(timestamp, hash_transactions(transactions), prev_block_hash, nonce)
    IN  IF validate_hash(hash) THEN [panic |-> FALSE, hash |-> hash, nonce |-> nonce]
        ELSE IF nonce = NONCE_MAX THEN [panic |-> TRUE]
        ELSE pow_loop(timestamp, transactions, prev_block_hash, nonce + 1)

\* pow's loop giving back its last attempt when the nonce cannot grow.
RECURSIVE pow_loop_last_attempt(_, _, _, _, _, _)
pow_loop_last_attempt(timestamp, transactions, prev_block_hash, nonce, target_bits, nonce_max) ==
    LET hash == block_hash(timestamp, hash_transactions(transactions), prev_block_hash, nonce)
    IN  IF validate_hash_with(hash, target_bits) \/ nonce = nonce_max
        THEN [panic |-> FALSE, hash |-> hash, nonce |-> nonce]
        ELSE pow_loop_last_attempt(timestamp, transactions, prev_block_hash, nonce + 1,
                                   target_bits, nonce_max)

\* pow's loop in a build whose TARGET_BITS is target_bits and whose nonce
\* type ends at nonce_max (checked_add gives None there).
RECURSIVE pow_loop_with(_, _, _, _, _, _)
pow_loop_with(timestamp, transactions, prev_block_hash, nonce, target_bits, nonce_max) ==
    LET hash == block_hash(timestamp, hash_transactions(transactions), prev_block_hash, nonce)
    IN  IF validate_hash_with(hash, target_bits)
        THEN [panic |-> FALSE, hash |-> hash, nonce |-> nonce]
        ELSE IF nonce = nonce_max THEN [panic |-> TRUE]
        ELSE pow_loop_with(timestamp, transactions, prev_block_hash, nonce + 1,
                           target_bits, nonce_max)

\* A pow whose search starts at nonce 0.
pow_with_from_zero(timestamp, transactions, prev_block_hash, target_bits, nonce_max) ==
    pow_loop_with(timestamp, transactions, prev_block_hash, 0, target_bits, nonce_max)

\* pow in such a build: the loop from nonce = 1
pow_with(timestamp, transactions, prev_block_hash, target_bits, nonce_max) ==
    pow_loop_with(timestamp, transactions, prev_block_hash, 1, target_bits, nonce_max)

\* A pow that returns its first attempt, valid or not.
pow_first_attempt(timestamp, transactions, prev_block_hash) ==
    [panic |-> FALSE, nonce |-> 1,
     hash |-> block_hash(timestamp, hash_transactions(transactions), prev_block_hash, 1)]

\* pow: the loop from nonce = 1
pow(timestamp, transactions, prev_block_hash) ==
    pow_loop(timestamp, transactions, prev_block_hash, 1)

\* -------------------------------------------------------------------- block
\* Block::new, with the time get_timestamp() returned.
Block_new(transactions, prev_block_hash, timestamp) ==
    LET r == pow(timestamp, transactions, prev_block_hash)
    IN  IF r.panic THEN [panic |-> TRUE]
        ELSE [panic |-> FALSE,
              block |-> [timestamp |-> timestamp,
                         transactions |-> transactions,
                         prev_block_hash |-> prev_block_hash,
                         hash |-> r.hash,
                         nonce |-> r.nonce]]

\* Block::new in a build with another difficulty and nonce width
Block_new_with(transactions, prev_block_hash, timestamp, target_bits, nonce_max) ==
    LET r == pow_with(timestamp, transactions, prev_block_hash, target_bits, nonce_max)
    IN  IF r.panic THEN [panic |-> TRUE]
        ELSE [panic |-> FALSE,
              block |-> [timestamp |-> timestamp,
                         transactions |-> transactions,
                         prev_block_hash |-> prev_block_hash,
                         hash |-> r.hash,
                         nonce |-> r.nonce]]

new_genesis_block(coinbase, timestamp) == Block_new(<<coinbase>>, None, timestamp)

\* bincode: a struct is its fields in declaration order, an Option a tag and the value.
EncOpt(o) == IF o = None THEN <<0>> ELSE <<1, o[1]>>
DecOpt(e) == IF e[1] = 0 THEN None ELSE Some(e[2])

EncInput(txi) == <<EncOpt(txi.tx_id), EncOpt(txi.v_out_idx), EncOpt(txi.signature), txi.pub_key>>
DecInput(e) == [tx_id |-> DecOpt(e[1]), v_out_idx |-> DecOpt(e[2]),
                signature |-> DecOpt(e[3]), pub_key |-> e[4]]

EncOutput(txo) == <<txo.value, txo.pub_key_hash>>
DecOutput(e) == [value |-> e[1], pub_key_hash |-> e[2]]

EncTx(tx) == <<tx.id, [i \in 1..Len(tx.v_in) |-> EncInput(tx.v_in[i])],
               [i \in 1..Len(tx.v_out) |-> EncOutput(tx.v_out[i])]>>
DecTx(e) == [id |-> e[1], v_in |-> [i \in 1..Len(e[2]) |-> DecInput(e[2][i])],
             v_out |-> [i \in 1..Len(e[3]) |-> DecOutput(e[3][i])]]

\* Block::encode
encode(block) ==
    <<block.timestamp,
      [i \in 1..Len(block.transactions) |-> EncTx(block.transactions[i])],
      EncOpt(block.prev_block_hash), block.hash, block.nonce>>

\* Block::decode
decode(data) ==
    [timestamp |-> data[1],
     transactions |-> [i \in 1..Len(data[2]) |-> DecTx(data[2][i])],
     prev_block_hash |-> DecOpt(data[3]),
     hash |-> data[4],
     nonce |-> data[5]]

\* ------------------------------------------------------------------ BlockDB
\* The store is two maps: `latest` is the value under the key "l" (an Option),
\* `blocks` the values under the 32-byte keys.
get_hash(latest) == latest

get_block(blocks, hash) ==
    IF hash \in DOMAIN blocks THEN Some(decode(blocks[hash])) ELSE None

\* A put_block that leaves nothing else in the store.
put_block_alone(blocks, block) == (block.hash :> encode(block))

\* A put_block that stores nothing.
put_block_nothing(blocks, block) == blocks

put_block(blocks, block) == (block.hash :> encode(block)) @@ blocks

\* A put_hash that leaves the pointer as it is.
put_hash_nothing(latest, hash) == latest

put_hash(latest, hash) == Some(hash)

\* ----------------------------------------------------------- BlockChainIter
\* An iterator that stays at a hash the store has no block for.
iter_next_stay(blocks, cur_hash) ==
    IF cur_hash = None THEN [item |-> None, cur_hash |-> None]
    ELSE LET block == get_block(blocks, cur_hash[1])
         IN  [item |-> block,
              cur_hash |-> IF block = None THEN cur_hash
                           ELSE IF block[1].prev_block_hash # None
                           THEN Some(block[1].prev_block_hash[1])
                           ELSE None]

\* An iterator that gives up after the block it is at.
iter_next_once(blocks, cur_hash) ==
    IF cur_hash = None THEN [item |-> None, cur_hash |-> None]
    ELSE [item |-> get_block(blocks, cur_hash[1]), cur_hash |-> None]

\* BlockChainIter::next: the item returned and the new cur_hash.
iter_next(blocks, cur_hash) ==
    IF cur_hash = None THEN [item |-> None, cur_hash |-> None]
    ELSE LET block == get_block(blocks, cur_hash[1])
         IN  [item |-> block,
              cur_hash |-> IF block # None /\ block[1].prev_block_hash # None
                           THEN Some(block[1].prev_block_hash[1])
                           ELSE None]

\* `for b in BlockChainIter::new(self)`: the blocks the loop visits, in order.
RECURSIVE iter_blocks(_, _)
iter_blocks(blocks, cur_hash) ==
    LET r == iter_next(blocks, cur_hash)
    IN  IF r.item = None THEN << >> ELSE <<r.item[1]>> \o iter_blocks(blocks, r.cur_hash)

\* The blocks of the chain that starts at `tip`, tip first.
chain_of(blocks, tip) == iter_blocks(blocks, Some(tip))

\* The transactions of those blocks, in the order find_utxo visits them.
chain_txs(blocks, tip) ==
    LET bs == chain_of(blocks, tip)
    IN  Concat([i \in 1..Len(bs) |-> bs[i].transactions])

\* -------------------------------------------------------------- UTXO engine
\* A UTXO map (HashMap<Hash, Vec<(TXOutput, usize)>>) is a function from the
\* transaction ids it holds to sequences of <<output, index>>; the spent map
\* (HashMap<Hash, HashSet<usize>>) is the set of <<transaction id, index>>.
EmptyMap == << >>

map_push(map, key, value) ==
    IF key \in DOMAIN map THEN [map EXCEPT ![key] = Append(@, value)]
    ELSE (key :> <<value>>) @@ map

\* find_utxo, lines 92-113: the outputs of one transaction, from index i on.
RECURSIVE scan_outputs(_, _, _, _, _)
scan_outputs(tx, i, utxo, stxo, pub_key_hash) ==
    IF i >= Len(tx.v_out) THEN utxo
    ELSE LET txo == tx.v_out[i + 1]
             is_spent == <<tx.id, i>> \in stxo
             can_unlock == is_locking_with_key(txo, pub_key_hash)
         IN  scan_outputs(tx, i + 1,
                          IF ~is_spent /\ can_unlock THEN map_push(utxo, tx.id, <<txo, i>>) ELSE utxo,
                          stxo, pub_key_hash)

\* A scan that records no input as a spend.
scan_inputs_nothing(tx, j, stxo, pub_key_hash) == stxo

\* find_utxo, lines 120-134: the inputs of one transaction, from position j on.
\* The two unwrap() calls are applications of [1]: were one to meet None the
\* evaluation would fail, as the program does.
RECURSIVE scan_inputs(_, _, _, _)
scan_inputs(tx, j, stxo, pub_key_hash) ==
    IF j > Len(tx.v_in) THEN stxo
    ELSE LET txi == tx.v_in[j]
         IN  scan_inputs(tx, j + 1,
                         IF use_key(txi, pub_key_hash)
                         THEN stxo \cup {<<txi.tx_id[1], txi.v_out_idx[1]>>}
                         ELSE stxo,
                         pub_key_hash)

\* find_utxo, lines 88-136: the transactions from position n on.
RECURSIVE scan_txs(_, _, _, _, _)
scan_txs(txs, n, utxo, stxo, pub_key_hash) ==
    IF n > Len(txs) THEN utxo
    ELSE LET tx == txs[n]
             utxo2 == scan_outputs(tx, 0, utxo, stxo, pub_key_hash)
             stxo2 == IF is_coinbase_tx(tx) THEN stxo
                      ELSE scan_inputs(tx, 1, stxo, pub_key_hash)
         IN  scan_txs(txs, n + 1, utxo2, stxo2, pub_key_hash)

find_utxo(blocks, tip, pub_key_hash) ==
    scan_txs(chain_txs(blocks, tip), 1, EmptyMap, {}, pub_key_hash)

\* The sum of the values of all outputs of a UTXO map.
RECURSIVE utxo_value(_)
utxo_value(utxo) ==
    IF DOMAIN utxo = {} THEN 0
    ELSE LET id == CHOOSE x \in DOMAIN utxo : TRUE
         IN  SumSeq([i \in 1..Len(utxo[id]) |-> utxo[id][i][1].value])
             + utxo_value([x \in DOMAIN utxo \ {id} |-> utxo[x]])

get_balance(blocks, tip, addr) ==
    IF extract_panics(addr) THEN Panic
    ELSE utxo_value(find_utxo(blocks, tip, extract_pub_key_hash(addr)))

\* The orders in which a HashMap with the keys S may be iterated.
Orders(S) == {o \in [1..Cardinality(S) -> S] : \A i, j \in DOMAIN o : o[i] = o[j] => i = j}

\* find_spendable_outputs, lines 219-236: entry o of transaction number t of
\* `order`.  `picked` lists what was collected, in the order it was.
RECURSIVE spend_loop(_, _, _, _, _, _, _, _)
spend_loop(all_utxo, order, t, o, utxo, acc_value, picked, amount) ==
    IF t > Len(order) THEN [utxo |-> utxo, acc_value |-> acc_value, picked |-> picked]
    ELSE IF o > Len(all_utxo[order[t]])
         THEN spend_loop(all_utxo, order, t + 1, 1, utxo, acc_value, picked, amount)
         ELSE LET out == all_utxo[order[t]][o][1]
                  out_idx == all_utxo[order[t]][o][2]
                  utxo2 == map_push(utxo, order[t], out_idx)
                  acc2 == acc_value + out.value
                  picked2 == Append(picked, <<order[t], out_idx, out.value>>)
              IN  IF acc2 >= amount
                  THEN [utxo |-> utxo2, acc_value |-> acc2, picked |-> picked2]
                  ELSE spend_loop(all_utxo, order, t, o + 1, utxo2, acc2, picked2, amount)

\* `order` is the order in which all_utxo is iterated.
find_spendable_outputs(blocks, tip, address, amount, order) ==
    IF extract_panics(address) THEN Panic
    ELSE LET all_utxo == find_utxo(blocks, tip, extract_pub_key_hash(address))
         IN  spend_loop(all_utxo, order, 1, 1, EmptyMap, 0, << >>, amount)

\* Wallets::get_wallet on the map address -> key pair
get_wallet(wallets, address) ==
    IF address \in DOMAIN wallets THEN Some(wallets[address]) ELSE None

\* Inputs that name the output after the selected one.
make_inputs_next_output(utxo, order2, pub_key) ==
    Concat([t \in 1..Len(order2) |->
              [k \in 1..Len(utxo[order2[t]]) |->
                 [tx_id |-> Some(order2[t]),
                  v_out_idx |-> Some(utxo[order2[t]][k] + 1),
                  signature |-> Some(NotImplementedYet),
                  pub_key |-> pub_key]]])

\* new_tx, lines 157-167: one input for each index of each selected transaction.
make_inputs(utxo, order2, pub_key) ==
    Concat([t \in 1..Len(order2) |->
              [k \in 1..Len(utxo[order2[t]]) |->
                 [tx_id |-> Some(order2[t]),
                  v_out_idx |-> Some(utxo[order2[t]][k]),
                  signature |-> Some(NotImplementedYet),
                  pub_key |-> pub_key]]])

\* make_outputs without the change output.
make_outputs_no_change(from, to, amount, valid_amount) ==
    IF extract_panics(to) THEN Panic
    ELSE <<TXOutput_new(amount, to)>>

\* new_tx, lines 169-177
make_outputs(from, to, amount, valid_amount) ==
    IF extract_panics(to) \/ (valid_amount > amount /\ extract_panics(from)) THEN Panic
    ELSE <<TXOutput_new(amount, to)>>
         \o (IF valid_amount > amount THEN <<TXOutput_new(valid_amount - amount, from)>> ELSE << >>)

\* new_tx refusing an amount equal to what was accumulated.
new_tx_from_strict(sel, wallets, from, to, amount, order2) ==
    IF sel = Panic THEN [kind |-> "panic"]
    ELSE IF sel.acc_value <= amount THEN [kind |-> "Err"]
    ELSE LET wallet == get_wallet(wallets, from)
         IN  IF wallet = None THEN [kind |-> "panic"]
             ELSE LET inputs == make_inputs(sel.utxo, order2, public_key(wallet[1]))
                      outputs == make_outputs(from, to, amount, sel.acc_value)
                  IN  IF extract_panics(to) THEN [kind |-> "panic"]
                      ELSE [kind |-> "Ok",
                            tx |-> [id |-> hash_transaction(inputs, outputs),
                                    v_in |-> inputs, v_out |-> outputs]]

\* new_tx, given what find_spendable_outputs returned; `order2` is the order in
\* which the selected map is iterated.  It panics where find_spendable_outputs
\* did (line 143), on the missing wallet (lines 153-156) and in
\* TXOutput::new(amount, to) (line 171).
new_tx_from(sel, wallets, from, to, amount, order2) ==
    IF sel = Panic THEN [kind |-> "panic"]
    ELSE IF sel.acc_value < amount THEN [kind |-> "Err"]
    ELSE LET wallet == get_wallet(wallets, from)
         IN  IF wallet = None THEN [kind |-> "panic"]
             ELSE LET inputs == make_inputs(sel.utxo, order2, public_key(wallet[1]))
                      outputs == make_outputs(from, to, amount, sel.acc_value)
                  IN  IF extract_panics(to) THEN [kind |-> "panic"]
                      ELSE [kind |-> "Ok",
                            tx |-> [id |-> hash_transaction(inputs, outputs),
                                    v_in |-> inputs, v_out |-> outputs]]

\* ------------------------------------------------------------------- inputs
GENESIS_COINBASE_DATA == << >>

\* The amounts a transfer is asked for.
Amounts == {0, 30, 50}
\* The addresses create is called with, and the two sides of a transfer.
CreateAddresses == {A0, A1} \cup BadAddresses
FromAddresses == {A1, A2}
ToAddresses == {A1, A2, A1x, ShortAddress}
\* How a write to the store may end: "none" is success, the others name the
\* put that returns an error (on which the program panics).
Faults == {"none", "put_block", "put_hash"}

\* -------------------------------------------------------------------- state
VARIABLES
    db_exists,  \* whether the path DB_FILE exists
    db_latest,  \* the store: the value under the key "l", an Option<Hash>
    db_blocks,  \* the store: block hash -> encoded block
    wallets,    \* the wallets file: address -> key pair
    bc,         \* the live BlockChain value, an Option of [tip]
    iter,       \* the live BlockChainIter, an Option of [cur_hash, yielded, done]
    now,        \* the system clock
    appended,   \* history: how many blocks create and mine_block have completed
    last        \* history: the last operation, its arguments, result and state before

vars == <<db_exists, db_latest, db_blocks, wallets, bc, iter, now, appended, last>>

Snapshot == [db_exists |-> db_exists, latest |-> db_latest, blocks |-> db_blocks, bc |-> bc]

\* get_timestamp() returns `now`, a reading of the system clock in
\* milliseconds.  The next reading is any time: the same millisecond, a
\* later one, or an earlier one when the system clock was set back.
Tick == 1..MaxTime

Init ==
    /\ db_exists = FALSE
    /\ db_latest = None
    /\ db_blocks = EmptyMap
    /\ wallets = EmptyMap
    /\ bc = None
    /\ iter = None
    /\ now \in Tick
    /\ appended = 0
    /\ last = [op |-> "init"]

\* ------------------------------------------------------------------ actions
\* cli.rs runs every command as one session: it opens the ledger (get, or
\* create), performs one operation on it and lets it go out of scope.  The
\* session is fresh while nothing has been done with the ledger yet.
Fresh == bc # None /\ iter = None /\ last.op \in {"create", "get"}

\* Wallets::create_wallet (cli.rs CreateWallet).  Key pairs are fresh random
\* values; the model numbers them in the order they are generated.
CreateWallet ==
    /\ \E k \in Keys :
          /\ get_address(k) \notin DOMAIN wallets
          /\ \A j \in Keys : j < k => get_address(j) \in DOMAIN wallets
          /\ wallets' = (get_address(k) :> k) @@ wallets
          /\ last' = [op |-> "create_wallet", address |-> get_address(k)]
    /\ UNCHANGED <<db_exists, db_latest, db_blocks, bc, iter, now, appended>>

\* A create that never refuses.
create_goes_on(exists) == FALSE

\* BlockChain::create, lines 26-28: whether create refuses to go on.
create_refuses(exists) == exists

\* What became of the store handle (the DB value of DB::open) when an
\* operation ends is kept in `last`: "none" when none was opened, "held" when
\* a BlockChain that lives on owns it, "closed" when BlockChain::drop ran and
\* called close(), "dropped" when the DB value went out of scope without
\* close() being called (no BlockChain owned it yet).
\* BlockChain::create
Create(address, fault) ==
    /\ bc = None
    /\ IF create_refuses(db_exists)
       THEN /\ last' = [op |-> "create", address |-> address, res |-> "panic", pre |-> Snapshot,
                            handle |-> "none"]
            /\ UNCHANGED <<db_exists, db_latest, db_blocks, bc, now, appended>>
       ELSE LET coinbase == new_coinbase_tx(address, Some(GENESIS_COINBASE_DATA))
                genesis == IF coinbase = Panic THEN Panic
                           ELSE new_genesis_block(coinbase, now)
                wrote_block == ~genesis.panic /\ fault # "put_block"
                wrote_hash == wrote_block /\ fault # "put_hash"
            IN  /\ db_exists' = TRUE
                /\ now' \in (IF coinbase = Panic THEN {now} ELSE Tick)
                /\ db_blocks' = IF wrote_block THEN put_block(db_blocks, genesis.block) ELSE db_blocks
                /\ db_latest' = IF wrote_hash THEN put_hash(db_latest, genesis.block.hash) ELSE db_latest
                /\ bc' = IF wrote_hash THEN Some([tip |-> genesis.block.hash]) ELSE None
                /\ appended' = IF wrote_hash THEN appended + 1 ELSE appended
                /\ last' = [op |-> "create", address |-> address,
                            res |-> IF wrote_hash THEN "ok" ELSE "panic", pre |-> Snapshot,
                            handle |-> IF wrote_hash THEN "held" ELSE "dropped"]
    /\ UNCHANGED <<wallets, iter>>

\* A get that finds no ledger anywhere.
BlockChain_get_nothing(exists, latest) == None

\* BlockChain::get: the Option<BlockChain> it returns.
BlockChain_get(exists, latest) ==
    IF ~exists THEN None
    ELSE IF get_hash(latest) = None THEN None
    ELSE Some([tip |-> get_hash(latest)[1]])

\* BlockChain::get
Get ==
    /\ bc = None
    /\ bc' = BlockChain_get(db_exists, db_latest)
    /\ last' = [op |-> "get", res |-> IF bc' = None THEN "none" ELSE "some", pre |-> Snapshot,
                handle |-> IF ~db_exists THEN "none" ELSE IF bc' = None THEN "dropped" ELSE "held"]
    /\ UNCHANGED <<db_exists, db_latest, db_blocks, wallets, iter, now, appended>>

\* impl Drop for BlockChain
Drop ==
    /\ bc # None
    /\ iter = None
    /\ bc' = None
    /\ last' = [op |-> "drop", pre |-> Snapshot, handle |-> "closed"]
    /\ UNCHANGED <<db_exists, db_latest, db_blocks, wallets, iter, now, appended>>

\* The largest nonce of a nonce type of NonceBits bits.
NarrowNonceMax == 2 ^ NonceBits - 1

\* The build of the program: its TARGET_BITS and the largest nonce.
TheBuild == [target_bits |-> TARGET_BITS, nonce_max |-> NONCE_MAX]

\* BlockChain::mine_block(transactions), `made` being what Block::new comes
\* to in the build `build`; `send` says which transfer the list comes from,
\* if it comes from one.  `tip` in `last` is self.tip when the call ends.
\* Ledgers are followed up to max_blocks stored blocks.
mine_block_upto(transactions, fault, send, made, build, max_blocks) ==
    /\ bc # None
    /\ iter = None
    /\ Cardinality(DOMAIN db_blocks) < max_blocks
    /\ LET last_hash == get_hash(db_latest)
           wrote_block == ~made.panic /\ fault # "put_block"
           wrote_hash == wrote_block /\ fault # "put_hash"
       IN  /\ now' \in (IF last_hash = None THEN {now} ELSE Tick)
           /\ db_blocks' = IF wrote_block THEN put_block(db_blocks, made.block) ELSE db_blocks
           /\ db_latest' = IF wrote_hash THEN put_hash(db_latest, made.block.hash) ELSE db_latest
           /\ bc' = IF wrote_hash THEN Some([tip |-> made.block.hash]) ELSE None
           /\ appended' = IF wrote_hash THEN appended + 1 ELSE appended
           /\ last' = [op |-> "mine_block", transactions |-> transactions, send |-> send,
                       res |-> IF wrote_hash THEN "ok" ELSE "panic", pre |-> Snapshot,
                       timestamp |-> now, build |-> build,
                       tip |-> IF wrote_block THEN made.block.hash ELSE bc[1].tip,
                       handle |-> IF wrote_hash THEN "held" ELSE "closed"]
    /\ UNCHANGED <<db_exists, wallets, iter>>

\* The same, up to MaxBlocks stored blocks.
mine_block_made(transactions, fault, send, made, build) ==
    mine_block_upto(transactions, fault, send, made, build, MaxBlocks)

\* BlockChain::mine_block(transactions)
mine_block(transactions, fault, send) ==
    mine_block_made(transactions, fault, send,
                    IF get_hash(db_latest) = None THEN [panic |-> TRUE]
                    ELSE Block_new(transactions, Some(get_hash(db_latest)[1]), now),
                    TheBuild)

\* BlockChain::new_tx (cli.rs line 38); `tip` in `last` is self.tip when the
\* call ends, by return or by panic.
NewTx(froms, tos, amounts) ==
    /\ Fresh
    /\ \E from \in froms, to \in tos, amount \in amounts :
       \E order \in (IF extract_panics(from) THEN {<< >>}
                     ELSE Orders(DOMAIN find_utxo(db_blocks, bc[1].tip,
                                                  extract_pub_key_hash(from)))) :
          LET sel == find_spendable_outputs(db_blocks, bc[1].tip, from, amount, order)
          IN  \E order2 \in (IF sel = Panic THEN {<< >>} ELSE Orders(DOMAIN sel.utxo)) :
                 LET res == new_tx_from(sel, wallets, from, to, amount, order2)
                 IN  /\ bc' = IF res.kind = "panic" THEN None ELSE bc
                     /\ last' = [op |-> "new_tx", from |-> from, to |-> to, amount |-> amount,
                                 sel |-> sel, res |-> res, pre |-> Snapshot,
                                 tip |-> bc[1].tip,
                                 handle |-> IF res.kind = "panic" THEN "closed" ELSE "held"]
    /\ UNCHANGED <<db_exists, db_latest, db_blocks, wallets, iter, now, appended>>

\* cli.rs line 41: mine_block(vec![tx]) with the transaction new_tx returned.
SendMine(fault) ==
    /\ last.op = "new_tx"
    /\ last.res.kind = "Ok"
    /\ mine_block(<<last.res.tx>>, fault,
                  Some([from |-> last.from, to |-> last.to, amount |-> last.amount,
                        tx |-> last.res.tx]))

\* A transaction assembled by hand (the fields of Transaction are pub): it
\* spends output idx of tx with the key pair k and pays all of it to `to`.
spend_output(tx, idx, k, to) ==
    LET inputs == <<[tx_id |-> Some(tx.id), v_out_idx |-> Some(idx),
                     signature |-> Some(NotImplementedYet), pub_key |-> public_key(k)]>>
        outputs == <<TXOutput_new(tx.v_out[idx + 1].value, to)>>
    IN  [id |-> hash_transaction(inputs, outputs), v_in |-> inputs, v_out |-> outputs]

\* The lists a caller of mine_block passes other than vec![tx]: the empty
\* list, and a transfer together with a transaction that spends its first
\* output, in either order.
BlockLists ==
    {<< >>} \cup
    (IF last.op = "new_tx" /\ last.res.kind = "Ok"
     THEN LET tx == last.res.tx
              k == CHOOSE k \in Keys : hash_pub_key(public_key(k)) = tx.v_out[1].pub_key_hash
              spend == spend_output(tx, 0, k, A0)
          IN  {<<tx, spend>>, <<spend, tx>>}
     ELSE {})

\* BlockChain::mine_block called with such a list
MineBlock(fault) ==
    /\ Fresh \/ (last.op = "new_tx" /\ last.res.kind = "Ok")
    /\ \E transactions \in BlockLists : mine_block(transactions, fault, None)

\* BlockChain::get_balance (cli.rs Balance); it panics on an address
\* extract_pub_key_hash panics on, and the BlockChain is dropped.  `tip` in
\* `last` is self.tip when the call ends.
GetBalance ==
    /\ Fresh
    /\ \E addr \in Addresses \cup BadAddresses :
          /\ bc' = IF extract_panics(addr) THEN None ELSE bc
          /\ last' = [op |-> "get_balance", address |-> addr,
                      res |-> get_balance(db_blocks, bc[1].tip, addr), pre |-> Snapshot,
                      tip |-> bc[1].tip,
                      handle |-> IF extract_panics(addr) THEN "closed" ELSE "held"]
    /\ UNCHANGED <<db_exists, db_latest, db_blocks, wallets, iter, now, appended>>

\* BlockChainIter::new
IterNew ==
    /\ Fresh
    /\ iter' = Some([cur_hash |-> Some(bc[1].tip), yielded |-> << >>, done |-> FALSE,
                     lookups |-> 0])
    /\ last' = [op |-> "iter_new", pre |-> Snapshot]
    /\ UNCHANGED <<db_exists, db_latest, db_blocks, wallets, bc, now, appended>>

\* A next that takes the block it visits out of the store.
IterNextTaking ==
    /\ iter # None
    /\ LET r == iter_next(db_blocks, iter[1].cur_hash)
           taken == IF iter[1].cur_hash = None THEN {} ELSE {iter[1].cur_hash[1]}
       IN  /\ iter' = Some([cur_hash |-> r.cur_hash,
                            yielded |-> iter[1].yielded \o r.item,
                            done |-> r.item = None,
                            lookups |-> iter[1].lookups
                                        + (IF iter[1].cur_hash = None THEN 0 ELSE 1)])
           /\ db_blocks' = [h \in DOMAIN db_blocks \ taken |-> db_blocks[h]]
           /\ last' = [op |-> "next", item |-> r.item, pre |-> Snapshot, from |-> iter[1]]
    /\ UNCHANGED <<db_exists, db_latest, wallets, bc, now, appended>>

\* BlockChainIter::next; `yielded` keeps what the iterator has returned so
\* far, `lookups` counts its calls of get_block (line 312, not reached when
\* cur_hash is None), and `from` in `last` is the iterator before the call.
IterNext ==
    /\ iter # None
    /\ LET r == iter_next(db_blocks, iter[1].cur_hash)
       IN  /\ iter' = Some([cur_hash |-> r.cur_hash,
                            yielded |-> iter[1].yielded \o r.item,
                            done |-> r.item = None,
                            lookups |-> iter[1].lookups
                                        + (IF iter[1].cur_hash = None THEN 0 ELSE 1)])
           /\ last' = [op |-> "next", item |-> r.item, pre |-> Snapshot, from |-> iter[1]]
    /\ UNCHANGED <<db_exists, db_latest, db_blocks, wallets, bc, now, appended>>

\* The iterator goes out of scope (the end of the for loop, or earlier).
IterDrop ==
    /\ iter # None
    /\ iter' = None
    /\ last' = [op |-> "iter_drop", pre |-> Snapshot]
    /\ UNCHANGED <<db_exists, db_latest, db_blocks, wallets, bc, now, appended>>

\* ----------------------------------------------------------- specifications
\* The library as any caller may drive it, writes to the store failing or not.
Next ==
    \/ CreateWallet
    \/ \E address \in CreateAddresses, fault \in Faults : Create(address, fault)
    \/ Get
    \/ Drop
    \/ NewTx({A1, NotBase58}, {A2, ShortAddress}, {30, 50})
    \/ \E fault \in Faults : SendMine(fault)
    \/ \E fault \in Faults : MineBlock(fault)
    \/ GetBalance
    \/ IterNew
    \/ IterNext
    \/ IterDrop

Spec == Init /\ [][Next]_vars

\* The ledgers the command line reaches: create-chain, create-wallet, send
\* and balance, every write succeeding.
NextSend ==
    \/ CreateWallet
    \/ \E address \in CreateAddresses : Create(address, "none")
    \/ Get
    \/ Drop
    \/ NewTx(FromAddresses, ToAddresses, Amounts)
    \/ SendMine("none")
    \/ GetBalance

SpecSend == Init /\ [][NextSend]_vars

\* ------------------------------------------------------------------- claims
\* The balance of an address now, and in the state before the last operation.
Balance(a) == get_balance(db_blocks, bc[1].tip, a)
BalanceBefore(a) == get_balance(last.pre.blocks, last.pre.bc[1].tip, a)

\* The last operation completed a transfer: new_tx, then mine_block(vec![tx]).
SendDone == last.op = "mine_block" /\ last.res = "ok" /\ last.send # None

\* C1 as stated: after a successful send between two distinct addresses the
\* sender's balance has dropped by the amount, the receiver's has grown by
\* it, and every other address keeps its balance.
C1_DistinctAddresses ==
    (SendDone /\ last.send[1].from # last.send[1].to) =>
        LET s == last.send[1]
        IN  /\ Balance(s.from) = BalanceBefore(s.from) - s.amount
            /\ Balance(s.to) = BalanceBefore(s.to) + s.amount
            /\ \A a \in Addresses \ {s.from, s.to} : Balance(a) = BalanceBefore(a)

\* C1, amended: the same for two addresses with distinct public-key hashes,
\* "every other address" being every address whose key hash is neither's.
C1_DistinctKeyHashes ==
    (SendDone /\ extract_pub_key_hash(last.send[1].from) # extract_pub_key_hash(last.send[1].to)) =>
        LET s == last.send[1]
        IN  /\ Balance(s.from) = BalanceBefore(s.from) - s.amount
            /\ Balance(s.to) = BalanceBefore(s.to) + s.amount
            /\ \A a \in Addresses :
                  extract_pub_key_hash(a) \notin
                      {extract_pub_key_hash(s.from), extract_pub_key_hash(s.to)}
                  => Balance(a) = BalanceBefore(a)

\* C1: genesis 50 to A1, then A1 has sent 30 to A2.
C1_Witness ==
    /\ SendDone
    /\ last.send[1].from = A1 /\ last.send[1].to = A2 /\ last.send[1].amount = 30
    /\ BalanceBefore(A1) = 50 /\ BalanceBefore(A2) = 0
    /\ Balance(A1) = 20 /\ Balance(A2) = 30

\* The <<transaction id, index>> pairs of the outputs the chain holds that are
\* locked with the key hash k.
ChainOutputs(k) ==
    LET txs == chain_txs(db_blocks, bc[1].tip)
    IN  {<<txs[n].id, i - 1>> : <<n, i>> \in
            {p \in (DOMAIN txs) \X (1..2) :
                /\ p[2] <= Len(txs[p[1]].v_out)
                /\ is_locking_with_key(txs[p[1]].v_out[p[2]], k)}}

\* The pairs referenced by an input that uses the key hash k, in any
\* non-coinbase transaction of the chain.
ChainSpent(k) ==
    LET txs == chain_txs(db_blocks, bc[1].tip)
    IN  {<<txs[n].v_in[j].tx_id[1], txs[n].v_in[j].v_out_idx[1]>> : <<n, j>> \in
            {p \in (DOMAIN txs) \X (1..2) :
                /\ ~is_coinbase_tx(txs[p[1]])
                /\ p[2] <= Len(txs[p[1]].v_in)
                /\ use_key(txs[p[1]].v_in[p[2]], k)}}

\* The pairs a UTXO map holds.
UtxoEntries(utxo) ==
    UNION {{<<id, utxo[id][j][2]>> : j \in DOMAIN utxo[id]} : id \in DOMAIN utxo}

\* C2 as stated: find_utxo(k) holds exactly the outputs locked by k that no
\* input using k of a non-coinbase transaction of the chain references,
\* wherever in the chain the spending transaction stands.
C2_UtxoIsLockedMinusSpent ==
    bc # None =>
        \A a \in Addresses :
            LET k == extract_pub_key_hash(a)
            IN  UtxoEntries(find_utxo(db_blocks, bc[1].tip, k))
                    = ChainOutputs(k) \ ChainSpent(k)

\* The insufficient-funds outcome of the last new_tx.
InsufficientFunds == last.op = "new_tx" /\ last.res.kind = "Err"

\* C3: new_tx fails with insufficient funds exactly when the balance of
\* `from` is below the amount; the failure carries no transaction and leaves
\* the blocks, the pointer and the in-memory tip as they were.
C3_InsufficientFunds ==
    last.op = "new_tx" =>
        /\ InsufficientFunds <=> BalanceBefore(last.from) < last.amount
        /\ InsufficientFunds =>
              /\ "tx" \notin DOMAIN last.res
              /\ db_blocks = last.pre.blocks
              /\ db_latest = last.pre.latest
              /\ db_exists = last.pre.db_exists
              /\ bc = last.pre.bc

\* C3: A1 holds 20 and asks to send 30.
C3_Witness ==
    /\ InsufficientFunds
    /\ last.from = A1 /\ last.amount = 30
    /\ BalanceBefore(A1) = 20
    /\ db_blocks = last.pre.blocks /\ bc = last.pre.bc

\* The last operation was a new_tx that returned a transaction.
Built == last.op = "new_tx" /\ last.res.kind = "Ok"

\* The <<transaction id, index>> pairs of the selection the last new_tx got
\* from find_spendable_outputs.
SelectedPairs ==
    UNION {{<<id, last.sel.utxo[id][j]>> : j \in DOMAIN last.sel.utxo[id]} :
              id \in DOMAIN last.sel.utxo}

\* The pair an input references.
Referenced(txi) == <<txi.tx_id[1], txi.v_out_idx[1]>>

\* The value of output idx of the transaction `id` of the chain.
OutValue(id, idx) ==
    LET txs == chain_txs(db_blocks, bc[1].tip)
        n == CHOOSE n \in DOMAIN txs : txs[n].id = id
    IN  txs[n].v_out[idx + 1].value

\* C4 as stated: a transaction new_tx returns has exactly one input for each
\* selected pair and no other input; its first output pays the amount to
\* `to`; it has a second output, paying the excess to `from`, exactly when
\* the accumulated value exceeds the amount, and no further output; its
\* outputs sum to what the outputs its inputs reference sum to.
C4_BuiltTransaction ==
    Built =>
        LET tx == last.res.tx
            acc == last.sel.acc_value
        IN  /\ \A pr \in SelectedPairs :
                  Cardinality({j \in DOMAIN tx.v_in : Referenced(tx.v_in[j]) = pr}) = 1
            /\ \A j \in DOMAIN tx.v_in : Referenced(tx.v_in[j]) \in SelectedPairs
            /\ Len(tx.v_out) >= 1
            /\ tx.v_out[1] = [value |-> last.amount,
                              pub_key_hash |-> extract_pub_key_hash(last.to)]
            /\ Len(tx.v_out) = IF acc > last.amount THEN 2 ELSE 1
            /\ acc > last.amount =>
                  tx.v_out[2] = [value |-> acc - last.amount,
                                 pub_key_hash |-> extract_pub_key_hash(last.from)]
            /\ SumSeq([i \in DOMAIN tx.v_out |-> tx.v_out[i].value])
                  = SumSeq([j \in DOMAIN tx.v_in |->
                              OutValue(Referenced(tx.v_in[j])[1], Referenced(tx.v_in[j])[2])])

\* C5 as stated: the selection find_spendable_outputs returns lies within
\* the UTXO set of the address and repeats no pair, its total is the sum of
\* the values selected, it stopped as soon as the amount was reached, and it
\* is the whole UTXO set when the amount was not reached.
C5_Selection ==
    last.op = "new_tx" =>
        LET sel == last.sel
            all == UtxoEntries(find_utxo(last.pre.blocks, last.pre.bc[1].tip,
                                         extract_pub_key_hash(last.from)))
            n == Len(sel.picked)
        IN  /\ SelectedPairs \subseteq all
            /\ \A id \in DOMAIN sel.utxo :
                  \A i, j \in DOMAIN sel.utxo[id] : sel.utxo[id][i] = sel.utxo[id][j] => i = j
            /\ sel.acc_value = SumSeq([i \in 1..n |-> sel.picked[i][3]])
            /\ (sel.acc_value >= last.amount /\ last.amount > 0) =>
                  n >= 1 /\ sel.acc_value - sel.picked[n][3] < last.amount
            /\ sel.acc_value < last.amount => SelectedPairs = all

\* C6: an iterator over a ledger of N completed appends (create included)
\* yields at most N blocks, the first the tip block, each next one the block
\* its predecessor names as previous, none twice; when it returns None it
\* has yielded exactly N and the last is the genesis block; and after N
\* blocks it has nothing left to visit.
C6_IterateChain ==
    iter # None =>
        LET y == iter[1].yielded
        IN  /\ Len(y) <= appended
            /\ Len(y) >= 1 => y[1].hash = bc[1].tip
            /\ \A i \in 2..Len(y) : y[i - 1].prev_block_hash = Some(y[i].hash)
            /\ \A i, j \in DOMAIN y : y[i] = y[j] => i = j
            /\ iter[1].done =>
                  /\ Len(y) = appended
                  /\ y[Len(y)].prev_block_hash = None
            /\ Len(y) = appended => iter[1].cur_hash = None

\* C6: the iterator over a chain of three blocks has returned None.
C6_Witness ==
    /\ iter # None
    /\ iter[1].done
    /\ appended = 3
    /\ Len(iter[1].yielded) = 3
    /\ iter[1].yielded[1].hash = bc[1].tip
    /\ iter[1].yielded[3].prev_block_hash = None

\* C7: after a mine_block that completed on a store whose pointer was h, the
\* pointer names a block other than h that the store holds under its own
\* hash, whose previous hash is h and whose transactions are the ones
\* passed; and after any mine_block, completed or not, every block the
\* store held before is still there under its key, unchanged.
C7_AppendOnly ==
    last.op = "mine_block" =>
        /\ \A k \in DOMAIN last.pre.blocks :
              k \in DOMAIN db_blocks /\ db_blocks[k] = last.pre.blocks[k]
        /\ last.res = "ok" =>
              LET h == last.pre.latest[1]
                  new == db_latest[1]
              IN  /\ new # h
                  /\ new \in DOMAIN db_blocks
                  /\ decode(db_blocks[new]).hash = new
                  /\ decode(db_blocks[new]).prev_block_hash = Some(h)
                  /\ decode(db_blocks[new]).transactions = last.transactions

\* C7: a block of two transactions has been appended to a store of two blocks.
C7_Witness ==
    /\ last.op = "mine_block" /\ last.res = "ok"
    /\ Len(last.transactions) = 2
    /\ Cardinality(DOMAIN last.pre.blocks) = 2
    /\ Cardinality(DOMAIN db_blocks) = 3
    /\ decode(db_blocks[db_latest[1]]).transactions = last.transactions

\* C8: create called while the store exists panics, and the blocks and the
\* pointer are what they were; no ledger is returned.
C8_CreateOnExisting ==
    (last.op = "create" /\ last.pre.db_exists) =>
        /\ last.res = "panic"
        /\ db_blocks = last.pre.blocks
        /\ db_latest = last.pre.latest
        /\ db_exists
        /\ bc = None

\* C8: create has been called on a store that holds a chain.
C8_Witness ==
    /\ last.op = "create" /\ last.pre.db_exists
    /\ last.pre.latest # None
    /\ last.res = "panic"
    /\ db_blocks = last.pre.blocks /\ db_blocks # EmptyMap

\* C9: get returns None exactly when the store does not exist or holds no
\* pointer; otherwise the tip of what it returns is the pointer; and it
\* leaves the blocks and the pointer as they were.
C9_Open ==
    last.op = "get" =>
        /\ last.res = "none" <=> (~last.pre.db_exists \/ last.pre.latest = None)
        /\ last.res = "none" <=> bc = None
        /\ last.res = "some" => bc = Some([tip |-> last.pre.latest[1]])
        /\ db_blocks = last.pre.blocks
        /\ db_latest = last.pre.latest
        /\ db_exists = last.pre.db_exists

\* C9: get has found a store without a pointer (a create stopped half way).
C9_Witness ==
    /\ last.op = "get" /\ last.res = "none"
    /\ last.pre.db_exists /\ last.pre.latest = None
    /\ bc = None

\* Bit b (0 the most significant of the first byte) of a byte sequence.
BitAt(bytes, b) == (bytes[(b \div 8) + 1] \div (2 ^ (7 - (b % 8)))) % 2

\* C10: every stored block is stored under its own hash, the leading
\* TARGET_BITS bits of that hash are zero, and hashing its timestamp, the
\* digest of its transaction ids, its previous hash and its nonce gives
\* that hash.
C10_StoredBlocks ==
    \A k \in DOMAIN db_blocks :
        LET b == decode(db_blocks[k])
        IN  /\ b.hash = k
            /\ validate_hash(b.hash)
            /\ \A i \in 0..(TARGET_BITS - 1) : BitAt(b.hash.bytes, i) = 0
            /\ block_hash(b.timestamp, hash_transactions(b.transactions),
                          b.prev_block_hash, b.nonce) = b.hash

\* C10: a stored block whose proof of work needed more than one attempt.
C10_Witness ==
    \E k \in DOMAIN db_blocks :
        /\ decode(db_blocks[k]).nonce > 1
        /\ decode(db_blocks[k]).hash = k
        /\ ~validate_hash(block_hash(decode(db_blocks[k]).timestamp,
                                      hash_transactions(decode(db_blocks[k]).transactions),
                                      decode(db_blocks[k]).prev_block_hash, 1))

\* ------------------------------------------------ the functions on their own
\* The byte values hashes are drawn from.
ByteValues == {0, 1, 15, 16, 127, 128, 255}

\* Every hash of HashLen such bytes.
InputHashes == {[bytes |-> b, pre |-> "input"] : b \in [1..HashLen -> ByteValues]}

\* Every difficulty from 0 to the width of a hash.
InputTargets == 0..(8 * HashLen)

\* The arguments validate_hash is applied to.
ValidateInputs ==
    {[op |-> "input", fn |-> "validate_hash", hash |-> h, target_bits |-> t] :
        h \in InputHashes, t \in InputTargets}

\* The inputs a transaction is made of: the coinbase input, one that names
\* an output, and the two with one reference field only.
InputTxInputs ==
    LET h == [bytes |-> [i \in 1..HashLen |-> 0], pre |-> "input"]
    IN  {[tx_id |-> id, v_out_idx |-> idx, signature |-> None, pub_key |-> << >>] :
            id \in {None, Some(h)}, idx \in {None, Some(0)}}

\* Every list of at most n of them.
RECURSIVE InputLists(_)
InputLists(n) ==
    IF n = 0 THEN {<< >>}
    ELSE InputLists(n - 1) \cup
         {Append(l, x) : l \in {m \in InputLists(n - 1) : Len(m) = n - 1}, x \in InputTxInputs}

\* The transactions is_coinbase_tx is applied to.
CoinbaseInputs ==
    {[op |-> "input", fn |-> "is_coinbase_tx",
      tx |-> [id |-> hash_transaction(v_in, << >>), v_in |-> v_in, v_out |-> << >>]] :
        v_in \in InputLists(MaxInputs)}

\* The arguments pow is applied to, and the builds it is applied in.
PowInputs ==
    {[op |-> "input", fn |-> "pow", timestamp |-> ts, transactions |-> txs,
      prev_block_hash |-> prev, build |-> build] :
        ts \in 1..MaxTime,
        txs \in {<< >>, <<new_coinbase_tx(A1, None)>>},
        prev \in {None} \cup {Some(h) : h \in {x \in InputHashes : x.bytes[1] \in {0, 255}
                                                   /\ \A i \in 2..HashLen : x.bytes[i] = 1}},
        build \in {TheBuild} \cup
                  {[target_bits |-> t, nonce_max |-> NarrowNonceMax] : t \in InputTargets}}

PureInputs == ValidateInputs \cup CoinbaseInputs \cup PowInputs

\* No ledger, and the arguments of one call in `last`.
InitPure ==
    /\ db_exists = FALSE
    /\ db_latest = None
    /\ db_blocks = EmptyMap
    /\ wallets = EmptyMap
    /\ bc = None
    /\ iter = None
    /\ now = 1
    /\ appended = 0
    /\ last \in PureInputs

\* validate_hash(&hash) in a build whose TARGET_BITS is last.target_bits
ApplyValidateHash ==
    /\ last.op = "input" /\ last.fn = "validate_hash"
    /\ last' = [op |-> "validate_hash", hash |-> last.hash, target_bits |-> last.target_bits,
                res |-> validate_hash_with(last.hash, last.target_bits)]
    /\ UNCHANGED <<db_exists, db_latest, db_blocks, wallets, bc, iter, now, appended>>

\* tx.is_coinbase_tx()
ApplyIsCoinbase ==
    /\ last.op = "input" /\ last.fn = "is_coinbase_tx"
    /\ last' = [op |-> "is_coinbase_tx", tx |-> last.tx, res |-> is_coinbase_tx(last.tx)]
    /\ UNCHANGED <<db_exists, db_latest, db_blocks, wallets, bc, iter, now, appended>>

\* pow(timestamp, &transactions, &prev_block_hash) in the build last.build;
\* `res` lists what each run returned.
ApplyPow ==
    /\ last.op = "input" /\ last.fn = "pow"
    /\ last' = [op |-> "pow", timestamp |-> last.timestamp, transactions |-> last.transactions,
                prev_block_hash |-> last.prev_block_hash, build |-> last.build,
                res |-> <<pow_with(last.timestamp, last.transactions, last.prev_block_hash,
                                   last.build.target_bits, last.build.nonce_max)>>]
    /\ UNCHANGED <<db_exists, db_latest, db_blocks, wallets, bc, iter, now, appended>>

\* A second run of pow on the same arguments
ApplyPowAgain ==
    /\ last.op = "pow" /\ Len(last.res) = 1
    /\ last' = [last EXCEPT !.res = Append(@, pow_with(last.timestamp, last.transactions,
                                                        last.prev_block_hash,
                                                        last.build.target_bits,
                                                        last.build.nonce_max))]
    /\ UNCHANGED <<db_exists, db_latest, db_blocks, wallets, bc, iter, now, appended>>

NextPure ==
    \/ ApplyValidateHash
    \/ ApplyIsCoinbase
    \/ ApplyPow
    \/ ApplyPowAgain

SpecPure == InitPure /\ [][NextPure]_vars

\* C11: for every hash and every difficulty from 0 to the width of the hash,
\* validate_hash is true exactly when the leading target_bits bits of the
\* hash, the most significant bit of the first byte first, are all zero.
C11_ValidateHash ==
    last.op = "validate_hash" =>
        (last.res <=> \A b \in 0..(last.target_bits - 1) : BitAt(last.hash.bytes, b) = 0)

\* C11: a difficulty of 12 bits refused a hash whose first byte is zero for
\* bit 11 alone, the last of the four bits it covers of the second byte.
C11_Witness ==
    /\ last.op = "validate_hash"
    /\ last.target_bits = 12
    /\ last.hash.bytes[1] = 0 /\ last.hash.bytes[2] = 16
    /\ ~last.res

\* ------------------------------------ builds with a narrow nonce and any difficulty
\* BlockChain::mine_block(vec![]) in a build whose TARGET_BITS is target_bits
\* and whose nonce is NonceBits wide.
MineNarrow(fault) ==
    /\ Fresh
    /\ \E target_bits \in InputTargets :
          mine_block_made(<< >>, fault, None,
                          IF get_hash(db_latest) = None THEN [panic |-> TRUE]
                          ELSE Block_new_with(<< >>, Some(get_hash(db_latest)[1]), now,
                                              target_bits, NarrowNonceMax),
                          [target_bits |-> target_bits, nonce_max |-> NarrowNonceMax])

NextNarrow ==
    \/ \E address \in CreateAddresses : Create(address, "none")
    \/ Get
    \/ Drop
    \/ \E fault \in Faults : MineNarrow(fault)

SpecNarrow == Init /\ [][NextNarrow]_vars

\* The nonces of the last mine_block's build whose hash validates.
ValidNonces ==
    {n \in 1..last.build.nonce_max :
        validate_hash_with(block_hash(last.timestamp, hash_transactions(last.transactions),
                                      Some(last.pre.latest[1]), n),
                           last.build.target_bits)}

\* C12: when no nonce from 1 to the largest of the nonce type gives a valid
\* hash, mine_block aborts, the store holds the blocks and the pointer it
\* held and self.tip is what it was; and a mine_block that completed stored
\* a block whose nonce lies in that range and whose hash validates.
C12_NonceOverflow ==
    last.op = "mine_block" =>
        /\ ValidNonces = {} =>
              /\ last.res = "panic"
              /\ db_blocks = last.pre.blocks
              /\ db_latest = last.pre.latest
              /\ last.tip = last.pre.bc[1].tip
              /\ bc = None
        /\ last.res = "ok" =>
              /\ decode(db_blocks[db_latest[1]]).nonce \in ValidNonces
              /\ validate_hash_with(decode(db_blocks[db_latest[1]]).hash, last.build.target_bits)

\* C12: a mine_block whose every nonce failed a difficulty of the whole hash
\* width has aborted on a store of one block.
C12_Witness ==
    /\ last.op = "mine_block"
    /\ last.build.target_bits = 8 * HashLen
    /\ ValidNonces = {}
    /\ last.res = "panic"
    /\ Cardinality(DOMAIN db_blocks) = 1
    /\ db_blocks = last.pre.blocks /\ db_latest = last.pre.latest

\* C13 as stated: no operation ends with a store handle that was opened and
\* is gone without close() having been called: while no BlockChain lives,
\* the last operation either opened no store or closed the one it had.
C13_HandleClosed ==
    "handle" \in DOMAIN last =>
        /\ last.handle # "dropped"
        /\ bc = None <=> last.handle \in {"none", "closed"}

\* C14 as stated: a new_tx that accumulated enough for the amount (an amount
\* of 0 included) and finds no wallet for `from` returns a not-found outcome
\* to its caller, whose ledger lives on; it does not abort.
C14_WalletNotFound ==
    (/\ last.op = "new_tx"
     /\ last.sel.acc_value >= last.amount
     /\ get_wallet(wallets, last.from) = None) =>
        /\ last.res.kind = "NotFound"
        /\ bc = last.pre.bc

\* ------------------------------------- ledgers whose genesis output stays put
\* create, then blocks of no transaction, of a transfer of nothing by the
\* owner of the second wallet, or of such a transfer and a spend of it.
NextIdle ==
    \/ CreateWallet
    \/ \E address \in CreateAddresses : Create(address, "none")
    \/ Get
    \/ Drop
    \/ NewTx({A2}, {A1, A2}, {0})
    \/ SendMine("none")
    \/ MineBlock("none")
    \/ GetBalance

SpecIdle == Init /\ [][NextIdle]_vars

\* The genesis coinbase transaction of the chain: the last one visited.
GenesisTx == chain_txs(db_blocks, bc[1].tip)[Len(chain_txs(db_blocks, bc[1].tip))]

\* No transaction after the genesis one has an output locked with k or an
\* input that uses k.
Untouched(k) ==
    LET txs == chain_txs(db_blocks, bc[1].tip)
    IN  \A n \in 1..(Len(txs) - 1) :
           /\ \A i \in DOMAIN txs[n].v_out : ~is_locking_with_key(txs[n].v_out[i], k)
           /\ \A j \in DOMAIN txs[n].v_in : ~use_key(txs[n].v_in[j], k)

\* C15: while no later transaction has an output locked to the address of
\* the genesis coinbase or an input using its key, the UTXO set of that
\* address is output 0 of the genesis coinbase and nothing else, and its
\* balance is the subsidy.
C15_GenesisBalance ==
    bc # None =>
        LET g == GenesisTx
            k == g.v_out[1].pub_key_hash
        IN  Untouched(k) =>
               /\ is_coinbase_tx(g)
               /\ find_utxo(db_blocks, bc[1].tip, k) = (g.id :> << <<g.v_out[1], 0>> >>)
               /\ \A a \in Addresses : extract_pub_key_hash(a) = k => Balance(a) = SUBSIDY

\* C15: genesis to A1, then a block of no transaction and a block with a
\* transaction that does not touch A1; A1 holds the subsidy.
C15_Witness ==
    /\ bc # None
    /\ appended = 3
    /\ Len(chain_of(db_blocks, bc[1].tip)) = 3
    /\ \E i \in 1..2 : chain_of(db_blocks, bc[1].tip)[i].transactions = << >>
    /\ \E i \in 1..2 : chain_of(db_blocks, bc[1].tip)[i].transactions # << >>
    /\ GenesisTx.v_out[1].pub_key_hash = extract_pub_key_hash(A1)
    /\ Untouched(extract_pub_key_hash(A1))
    /\ Balance(A1) = SUBSIDY

\* C16: in the chain, the transaction id and the output index of an input
\* are both there or both missing; they are missing only in the one input
\* of a coinbase transaction; and an input of any other transaction names a
\* transaction of a block strictly nearer to genesis and an output that
\* transaction has.
C16_InputReferences ==
    bc # None =>
        LET bs == chain_of(db_blocks, bc[1].tip)
        IN  \A b \in DOMAIN bs : \A t \in DOMAIN bs[b].transactions :
               LET tx == bs[b].transactions[t]
               IN  \A j \in DOMAIN tx.v_in :
                      LET txi == tx.v_in[j]
                      IN  /\ (txi.tx_id = None) <=> (txi.v_out_idx = None)
                          /\ txi.tx_id = None => is_coinbase_tx(tx)
                          /\ ~is_coinbase_tx(tx) =>
                                /\ txi.tx_id # None
                                /\ \E b2 \in (b + 1)..Len(bs) :
                                      \E t2 \in DOMAIN bs[b2].transactions :
                                         /\ bs[b2].transactions[t2].id = txi.tx_id[1]
                                         /\ txi.v_out_idx[1] >= 0
                                         /\ txi.v_out_idx[1] < Len(bs[b2].transactions[t2].v_out)

\* C16: the transaction of the tip block has an input that names output 1
\* (the change) of the transaction of the block before it, itself a spend of
\* the genesis coinbase.
C16_Witness ==
    /\ bc # None
    /\ LET bs == chain_of(db_blocks, bc[1].tip)
       IN  /\ Len(bs) = 3
           /\ Len(bs[1].transactions) = 1 /\ Len(bs[2].transactions) = 1
           /\ \E j \in DOMAIN bs[1].transactions[1].v_in :
                  /\ bs[1].transactions[1].v_in[j].tx_id = Some(bs[2].transactions[1].id)
                  /\ bs[1].transactions[1].v_in[j].v_out_idx = Some(1)
           /\ bs[2].transactions[1].v_in[1].tx_id = Some(bs[3].transactions[1].id)
           /\ is_coinbase_tx(bs[3].transactions[1])

\* C17: is_coinbase_tx is true exactly for a transaction of one input whose
\* transaction id is missing: false without inputs, false for one input
\* that names a transaction, false for two inputs or more whatever the first.
C17_IsCoinbase ==
    last.op = "is_coinbase_tx" =>
        LET v_in == last.tx.v_in
        IN  /\ last.res <=> (Cardinality(DOMAIN v_in) = 1
                             /\ \A j \in DOMAIN v_in : v_in[j].tx_id = None)
            /\ v_in = << >> => ~last.res
            /\ Len(v_in) >= 2 => ~last.res
            /\ (Len(v_in) = 1 /\ v_in[1].tx_id # None) => ~last.res

\* C17: is_coinbase_tx said no to two inputs of which the first has no
\* transaction id.
C17_Witness ==
    /\ last.op = "is_coinbase_tx"
    /\ Len(last.tx.v_in) = 2
    /\ last.tx.v_in[1].tx_id = None
    /\ ~last.res

\* The hash pow's loop computes in the last run of pow for the nonce n.
AttemptHash(n) ==
    block_hash(last.timestamp, hash_transactions(last.transactions), last.prev_block_hash, n)

\* C18: what pow returns is a nonce of at least 1 and the hash of that
\* nonce, which validates, while the hash of no nonce from 1 below it
\* does; and two runs on the same arguments return the same.
C18_SmallestNonce ==
    last.op = "pow" =>
        /\ \A i, j \in DOMAIN last.res : last.res[i] = last.res[j]
        /\ \A i \in DOMAIN last.res :
              ~last.res[i].panic =>
                 /\ last.res[i].nonce >= 1
                 /\ last.res[i].hash = AttemptHash(last.res[i].nonce)
                 /\ validate_hash_with(last.res[i].hash, last.build.target_bits)
                 /\ \A n \in 1..(last.res[i].nonce - 1) :
                       ~validate_hash_with(AttemptHash(n), last.build.target_bits)

\* C18: two runs of pow have returned a nonce above 2, the hash of nonce 0
\* being one that would have validated.
C18_Witness ==
    /\ last.op = "pow"
    /\ Len(last.res) = 2
    /\ ~last.res[1].panic
    /\ last.res[1].nonce > 2
    /\ last.res[2] = last.res[1]
    /\ validate_hash_with(AttemptHash(0), last.build.target_bits)

\* C19: a live BlockChain's tip is the pointer the store holds, after create,
\* after get and after each mine_block that completed; so an iterator that
\* has not moved yet stands at the block the next mine_block links to.
C19_TipIsPointer ==
    /\ bc # None => db_latest = Some(bc[1].tip)
    /\ (last.op = "mine_block" /\ last.res = "ok") => db_latest = Some(last.tip)
    /\ (iter # None /\ last.op = "iter_new") => iter[1].cur_hash = get_hash(db_latest)

\* C19: a mine_block has completed: the tip and the pointer have moved
\* together to the new block.
C19_Witness ==
    /\ last.op = "mine_block" /\ last.res = "ok"
    /\ bc # None
    /\ db_latest = Some(bc[1].tip)
    /\ db_latest # last.pre.latest
    /\ last.pre.bc[1].tip = last.pre.latest[1]

\* ------------------------------------------------ a store that loses blocks
\* The store drops the value under one block hash (corruption upstream).
LoseBlock ==
    /\ \E k \in DOMAIN db_blocks :
          db_blocks' = [x \in DOMAIN db_blocks \ {k} |-> db_blocks[x]]
    /\ last' = [op |-> "lose_block", pre |-> Snapshot]
    /\ UNCHANGED <<db_exists, db_latest, wallets, bc, iter, now, appended>>

\* mine_block(vec![]), at most MaxBlocks blocks ever
MineSome ==
    /\ appended < MaxBlocks
    /\ MineBlock("none")

NextLossy ==
    \/ \E address \in CreateAddresses : Create(address, "none")
    \/ Get
    \/ Drop
    \/ MineSome
    \/ IterNew
    \/ IterNext
    \/ IterDrop
    \/ LoseBlock

SpecLossy == Init /\ [][NextLossy]_vars

\* The last call of next met a hash the store had no block for.
MissingBlock ==
    /\ last.op = "next"
    /\ last.from.cur_hash # None
    /\ last.from.cur_hash[1] \notin DOMAIN last.pre.blocks

\* C20: a call of next at a hash the store has no block for returns None
\* after that one lookup, without aborting, keeps what was yielded and
\* leaves no hash to visit; a call with no hash to visit returns None and
\* looks nothing up.
C20_MissingBlock ==
    last.op = "next" =>
        /\ iter # None /\ bc = last.pre.bc /\ bc # None
        /\ MissingBlock =>
              /\ last.item = None
              /\ iter[1].cur_hash = None
              /\ iter[1].yielded = last.from.yielded
              /\ iter[1].lookups = last.from.lookups + 1
        /\ last.from.cur_hash = None =>
              /\ last.item = None
              /\ iter[1].cur_hash = None
              /\ iter[1].yielded = last.from.yielded
              /\ iter[1].lookups = last.from.lookups

\* C20: after one block was yielded, the block it names as previous was
\* not in the store: the sequence ended there.
C20_Witness ==
    /\ MissingBlock
    /\ Len(last.from.yielded) = 1
    /\ last.from.cur_hash = last.from.yielded[1].prev_block_hash
    /\ last.item = None
    /\ iter[1].done /\ iter[1].cur_hash = None
    /\ iter[1].yielded = last.from.yielded

\* ------------------------------------------------- repeated empty transfers
\* cli.rs line 41, as SendMine, the ledger followed up to the genesis block
\* and MaxSends transfers.
SendMineMore ==
    /\ last.op = "new_tx"
    /\ last.res.kind = "Ok"
    /\ mine_block_upto(<<last.res.tx>>, "none",
                       Some([from |-> last.from, to |-> last.to, amount |-> last.amount,
                             tx |-> last.res.tx]),
                       Block_new(<<last.res.tx>>, Some(get_hash(db_latest)[1]), now),
                       TheBuild, 1 + MaxSends)

\* create-chain A1, create-wallet, and send of 0 or 30 from A1 or A2 to A1.
NextRepeat ==
    \/ CreateWallet
    \/ Create(A1, "none")
    \/ Get
    \/ Drop
    \/ NewTx(FromAddresses, {A1}, {0, 30})
    \/ SendMineMore

SpecRepeat == Init /\ [][NextRepeat]_vars

\* Where the inputs of the non-coinbase transactions of the chain stand:
\* <<n, j>> is input j of transaction n.
ChainInputs ==
    LET txs == chain_txs(db_blocks, bc[1].tip)
    IN  {p \in (DOMAIN txs) \X (1..(MaxSends + 1)) :
            /\ ~is_coinbase_tx(txs[p[1]])
            /\ p[2] <= Len(txs[p[1]].v_in)}

\* The outputs the chain holds under <<transaction id, index>>.
OutputsAt(pr) ==
    LET txs == chain_txs(db_blocks, bc[1].tip)
    IN  {txs[n].v_out[pr[2] + 1] : n \in {m \in DOMAIN txs :
                                            /\ txs[m].id = pr[1]
                                            /\ pr[2] + 1 <= Len(txs[m].v_out)}}

\* C21 as stated: in a chain made by create and transfers, no two inputs
\* reference the same <<transaction id, index>> pair, and every input
\* references an output locked with the hash of the input's public key.
C21_NoDoubleSpend ==
    bc # None =>
        LET txs == chain_txs(db_blocks, bc[1].tip)
        IN  /\ \A p, q \in ChainInputs :
                  Referenced(txs[p[1]].v_in[p[2]]) = Referenced(txs[q[1]].v_in[q[2]]) => p = q
            /\ \A p \in ChainInputs :
                  LET txi == txs[p[1]].v_in[p[2]]
                  IN  /\ OutputsAt(Referenced(txi)) # {}
                      /\ \A txo \in OutputsAt(Referenced(txi)) :
                             is_locking_with_key(txo, hash_pub_key(txi.pub_key))

\* The sum of get_balance over the addresses S.
RECURSIVE SumBalances(_)
SumBalances(S) ==
    IF S = {} THEN 0
    ELSE LET a == CHOOSE x \in S : TRUE
         IN  Balance(a) + SumBalances(S \ {a})

\* One address for each public-key hash an address of Addresses decodes to.
OneEach ==
    {a \in Addresses :
        a = CHOOSE b \in Addresses : extract_pub_key_hash(b) = extract_pub_key_hash(a)}

\* C22 as stated: after create and any transfers, done or refused, the
\* balances of all addresses sum to the genesis subsidy.
C22_SupplyOverAddresses ==
    bc # None => SumBalances(Addresses) = SUBSIDY

\* C22, amended: the balances sum to the genesis subsidy when each
\* public-key hash is counted once, whatever number of addresses decode to it.
C22_SupplyOverKeyHashes ==
    bc # None => SumBalances(OneEach) = SUBSIDY

\* C22: A1, holding the genesis subsidy, has sent 30 to itself; it holds an
\* output of 30 and one of 20.
C22_Witness ==
    /\ SendDone
    /\ last.send[1].from = A1 /\ last.send[1].to = A1 /\ last.send[1].amount = 30
    /\ Len(last.send[1].tx.v_out) = 2
    /\ Balance(A1) = SUBSIDY
    /\ SumBalances(OneEach) = SUBSIDY

\* The block under the hash h is stored, and so is every block reached from
\* it by prev_block_hash, down to a block that has none (a genesis block).
ReachesGenesis(blocks, h) ==
    LET c == chain_of(blocks, h)
    IN  /\ Len(c) >= 1
        /\ c[1].hash = h
        /\ \A i \in 1..(Len(c) - 1) : c[i].prev_block_hash = Some(c[i + 1].hash)
        /\ c[Len(c)].prev_block_hash = None

\* C23: the pointer, whenever the store holds one, and the tip of a live
\* BlockChain name a stored block from which the genesis block is reached
\* through stored blocks; so does self.tip at the end of every mine_block,
\* one that aborted at either write included.
C23_WriteOrder ==
    /\ db_latest # None => ReachesGenesis(db_blocks, db_latest[1])
    /\ bc # None => ReachesGenesis(db_blocks, bc[1].tip)
    /\ last.op = "mine_block" => ReachesGenesis(db_blocks, last.tip)

\* C23: a mine_block aborted between its two writes: the new block is
\* stored, self.tip had moved to it, the pointer still names the old block.
C23_Witness ==
    /\ last.op = "mine_block" /\ last.res = "panic"
    /\ last.tip \in DOMAIN db_blocks
    /\ last.tip \notin DOMAIN last.pre.blocks
    /\ db_latest = last.pre.latest
    /\ db_latest # Some(last.tip)
    /\ ReachesGenesis(db_blocks, last.tip)
    /\ ReachesGenesis(db_blocks, db_latest[1])

\* The operations that only read the ledger: get_balance, new_tx (with
\* find_spendable_outputs and find_utxo inside both) and the steps of an
\* iteration, which is what print_chain is made of.
Queried == last.op \in {"get_balance", "new_tx", "iter_new", "next", "iter_drop"}

\* C24: a query leaves the store path, the stored blocks and the pointer as
\* they were; the BlockChain that lives on has the tip it had, and self.tip
\* of a new_tx or a get_balance is the same when the call ends, however it
\* ends (no BlockChain lives on only after one of the two panicked).
C24_QueriesChangeNothing ==
    Queried =>
        /\ db_exists = last.pre.db_exists
        /\ db_blocks = last.pre.blocks
        /\ db_latest = last.pre.latest
        /\ bc # None => bc = last.pre.bc
        /\ last.op \in {"new_tx", "get_balance"} => last.tip = last.pre.bc[1].tip
        /\ bc = None => \/ last.op = "new_tx" /\ last.res.kind = "panic"
                        \/ last.op = "get_balance" /\ extract_panics(last.address)

\* C24: an iteration over a ledger of three blocks has yielded the second
\* of them; the store and the tip are as they were.
C24_Witness ==
    /\ last.op = "next"
    /\ last.item # None
    /\ Len(iter[1].yielded) = 2
    /\ Cardinality(DOMAIN db_blocks) = 3
    /\ db_blocks = last.pre.blocks /\ db_latest = last.pre.latest
    /\ bc = last.pre.bc /\ bc # None

\* C25 as stated: a transaction new_tx returns has at least one input, and
\* each of its outputs has a value above 0.
C25_SpendsAndPays ==
    Built =>
        /\ Len(last.res.tx.v_in) >= 1
        /\ \A i \in DOMAIN last.res.tx.v_out : last.res.tx.v_out[i].value > 0

\* C26 as stated: the store path exists only if the pointer is recorded, so
\* that create and get never both find nothing to do: create refusing the
\* path while get returns None.
C26_CreateOrOpen ==
    /\ db_exists => db_latest # None
    /\ ~(create_refuses(db_exists) /\ BlockChain_get(db_exists, db_latest) = None)

====
